---- MODULE Spec2Model ----
(***************************************************************************)
(* A model of the resilient job orchestration layer of ARQV30:             *)
(*   - services/social_scraping_orchestrator.py  (SocialScrapingOrchestrator)*)
(*   - services/apify_facebook_scraper.py, apify_instagram_scraper.py      *)
(*     (the job lifecycle clients, seen from the orchestrator)             *)
(*   - services/social_media_extractor.py (the _simulate_*_data generators)*)
(*   - scrapers/apify_*_scraper.py (the key pool with _get_next_api_key)   *)
(*                                                                         *)
(* Spec     : the orchestrator; one asyncio event loop, tasks of a tier    *)
(*            interleave only at their await points.                       *)
(* SpecPool : the key pool of scrapers/, shared by concurrent scrape calls.*)
(* SpecClient, SpecClientLive : one job lifecycle client, from the key to  *)
(*            the dataset; the second with weak fairness of its steps.     *)
(* SpecGen  : two calls of a generator of synthetic posts with the same    *)
(*            arguments, time passing between them.                        *)
(* SpecBook : the orchestrator over two calls and two session ids, with    *)
(*            clock ticks, cleanup_old_tasks and the statistics queries.   *)
(* SpecScore, SpecSentiment : calculate_virality_score and                 *)
(*            analyze_sentiment_trends, called once on drawn arguments.    *)
(* SpecTimed: the wall-clock time of one batch with one client task.       *)
(***************************************************************************)
EXTENDS Integers, Sequences, FiniteSets, TLC

-----------------------------------------------------------------------------
(* Bounds of the model *)

MaxCalls == 1
MaxResultsPerPlatform == 9
MaxLivePosts == 1
MaxKeys == 3
MaxCallers == 2
MaxPoolCalls == 5
MaxPollErrors == 2
MaxGenResults == 13
MaxGenClock == 1

(* Program constants *)

DefaultMaxRetries == 2
FacebookSimCap == 8
YoutubeSimCap == 8
TwitterSimCap == 12
InstagramSimCap == 10
PollInterval == 10
PollErrorBackoff == 5
MaxWaitMinutes == 15

Platforms == {"facebook", "instagram", "youtube", "linkedin"}
SessionIds == {"s1"}
ResultLimits == {0, MaxResultsPerPlatform}
KeyNames == {"ka", "kb"}
Callers == 1..MaxCallers

Min(a, b) == IF a < b THEN a ELSE b

\* round() of Python: to the nearest integer, a tie to the even one
RoundHalfEven(n, d) ==
    LET q == n \div d
        r == n % d
    IN  IF 2 * r < d THEN q
        ELSE IF 2 * r > d THEN q + 1
        ELSE IF q % 2 = 0 THEN q ELSE q + 1

-----------------------------------------------------------------------------
(* State *)

VARIABLES
    callpc,            \* position of execute_comprehensive_scraping
    call,              \* arguments of the current (or last) call
    tier,              \* priority of the batch being run (0: none yet)
    tasks,             \* the ScrapingTask of each platform and its coroutine's position
    taskret,           \* value returned by each task coroutine (held by gather)
    results,           \* the results dict of _execute_tasks_with_fallbacks
    active_tasks,      \* self.active_tasks    (keys)
    completed_tasks,   \* self.completed_tasks (keys)
    failed_tasks,      \* self.failed_tasks    (keys)
    stats,             \* self.stats
    report,            \* value returned by the last completed call
    ncalls             \* number of completed calls

orchvars == <<callpc, call, tier, tasks, taskret, results, active_tasks,
              completed_tasks, failed_tasks, stats, report, ncalls>>

\* The key pool of scrapers/apify_facebook_scraper.py (and its instagram twin)
VARIABLES
    api_keys,           \* self.api_keys, a list of keys
    current_key_index,  \* self.current_key_index
    ppc,                \* position of each concurrent scrape_*_posts call
    plocal,             \* the local `key` of _get_next_api_key in each call
    pout,               \* how the last call of each caller ended
    pcount,             \* number of scrape_*_posts calls started
    running,            \* the coroutine that holds the event loop (0: none)
    handed              \* history: the indices read by _get_next_api_key, in order

poolvars == <<api_keys, current_key_index, ppc, plocal, pout, pcount, running, handed>>

\* One attempt of a job lifecycle client of services/ (scrape_*_posts)
VARIABLES
    cpc,        \* position of the attempt: idle, submit, loop, sleep, fetch, done
    cstatus,    \* status of the run as last seen by the client ("none": no run)
    celapsed,   \* time.time() - start_time of _wait_for_completion, in seconds
    csleep,     \* duration of the asyncio.sleep the attempt is suspended in
    cerrors,    \* history: poll errors of this attempt (counted up to MaxPollErrors)
    clast,      \* history: the last operation of the attempt ("poll_error": a
                \* status request that raised)
    cfetch,     \* history: whether the GET of the dataset items was sent
    creports,   \* history: the report_success / report_failure calls, in order
    cerror,     \* what made the attempt fail ("none": nothing so far)
    cout        \* how the attempt ended: none, success, failure, raise

clientvars == <<cpc, cstatus, celapsed, csleep, cerrors, clast, cfetch,
                creports, cerror, cout>>

\* Two calls of a generator of synthetic posts with the same arguments
VARIABLES
    gpc,      \* "init": not called; "once": called; "twice": called again
    gin,      \* the generator and its arguments
    gseed,    \* the seed of str hashes of the Python process
    gclock,   \* datetime.now() of the process, in seconds
    gout1,    \* what the first call returned
    gout2     \* what the second call returned

genvars == <<gpc, gin, gseed, gclock, gout1, gout2>>

\* The age of the bookkeeping entries of the orchestrator
VARIABLES
    now,            \* datetime.now() of the process, in hours
    completed_at,   \* created_at of the task stored under each key of completed_tasks
    failed_at       \* created_at of the task stored under each key of failed_tasks

bookvars == <<now, completed_at, failed_at>>

\* One call of a pure function of the services
VARIABLES
    fpc,      \* "init": not called; "done": called
    fin,      \* the arguments
    fout      \* the value returned

funvars == <<fpc, fin, fout>>

\* The wall-clock time of one batch of _execute_priority_batch
VARIABLES
    wpc,        \* position of the batch and of its client task
    wtier,      \* priority of the tasks of the batch
    wclock,     \* seconds since the batch was started
    wstart,     \* start_time of _wait_for_completion
    wwake,      \* when the asyncio.sleep the task is suspended in ends
    wresolved   \* how the batch resolved: none, complete, timeout

timedvars == <<wpc, wtier, wclock, wstart, wwake, wresolved>>

vars == <<orchvars, poolvars, clientvars, genvars, bookvars, funvars, timedvars>>

NoResult == [origin |-> "none"]
NoEntries == [k \in {} |-> 0]
NoReport == [origin |-> "none"]
NoTask == [pc |-> "absent", priority |-> 0, retry_count |-> 0,
           max_retries |-> 0, max_results |-> 0, attempts |-> 0, raised |-> 0,
           created_at |-> 0]

\* ScrapingTask as built by execute_comprehensive_scraping
RealPlatforms == {"facebook", "instagram"}
PriorityOf(p) == IF p \in {"facebook", "instagram"} THEN 1 ELSE 2

ScrapingTask(p, m) ==
    [pc |-> "pending", priority |-> PriorityOf(p), retry_count |-> 0,
     max_retries |-> DefaultMaxRetries, max_results |-> m,
     attempts |-> 0, raised |-> 0, created_at |-> now]

\* f"{session_id}_{task.platform}"
Key(sid, p) == sid \o "_" \o p

-----------------------------------------------------------------------------
(* Result dictionaries.  "results" is len(result.get('results', [])) and   *)
(* "posts" is len(result.get('posts', [])); data_source "none" stands for  *)
(* a dictionary without that key.  "origin" names the constructor.         *)

RangeLen(k) == IF k < 0 THEN 0 ELSE k

\* the success dictionary of scrape_facebook_posts / scrape_instagram_posts
LiveResult(n) ==
    [origin |-> "client", success |-> TRUE, data_source |-> "none",
     results |-> 0, posts |-> n]

\* (variant: the timeout handler builds the error result instead)
CreateFallbackResultAsError ==
    [origin |-> "error", success |-> FALSE, data_source |-> "none",
     results |-> 0, posts |-> 0]

\* SocialScrapingOrchestrator._create_fallback_result
CreateFallbackResult ==
    [origin |-> "fallback_empty", success |-> TRUE,
     data_source |-> "fallback_empty", results |-> 0, posts |-> 0]

\* SocialScrapingOrchestrator._create_error_result
CreateErrorResult ==
    [origin |-> "error", success |-> FALSE, data_source |-> "none",
     results |-> 0, posts |-> 0]

\* (variant: no cap on the number of records)
SimulateFacebookDataUncapped(m) ==
    [origin |-> "generator", success |-> TRUE, data_source |-> "simulated",
     results |-> RangeLen(m), posts |-> 0]

\* SocialMediaExtractor._simulate_*_data
SimulateFacebookData(m) ==
    [origin |-> "generator", success |-> TRUE, data_source |-> "simulated",
     results |-> RangeLen(Min(m, FacebookSimCap)), posts |-> 0]

SimulateInstagramData(m) ==
    [origin |-> "generator", success |-> TRUE, data_source |-> "none",
     results |-> RangeLen(Min(m, InstagramSimCap)), posts |-> 0]

SimulateYoutubeData(m) ==
    [origin |-> "generator", success |-> TRUE, data_source |-> "none",
     results |-> RangeLen(Min(m, YoutubeSimCap)), posts |-> 0]

\* (variant: the cap of the other generators)
SimulateTwitterDataCapEight(m) ==
    [origin |-> "generator", success |-> TRUE, data_source |-> "none",
     results |-> RangeLen(Min(m, 8)), posts |-> 0]

SimulateTwitterData(m) ==
    [origin |-> "generator", success |-> TRUE, data_source |-> "none",
     results |-> RangeLen(Min(m, TwitterSimCap)), posts |-> 0]

\* SocialScrapingOrchestrator._execute_fallback_scraping
ExecuteFallbackScraping(p, m) ==
    CASE p = "facebook"  -> SimulateFacebookData(m)
      [] p = "instagram" -> SimulateInstagramData(m)
      [] p = "youtube"   -> SimulateYoutubeData(m)
      [] p = "twitter"   -> SimulateTwitterData(m)
      [] OTHER           -> CreateErrorResult

-----------------------------------------------------------------------------
(* The job lifecycle client, as one attempt of scrape_*_posts seen by the  *)
(* orchestrator.  An attempt runs in segments separated by the             *)
(* asyncio.sleep calls of _wait_for_completion; the requests calls are     *)
(* synchronous, so a segment is atomic on the event loop.  Each segment    *)
(* ends with one event of the remote job API.                              *)

PollEvents == {"RUNNING", "poll_error", "SUCCEEDED", "FAILED", "ABORTED", "TIMED-OUT"}
\* first segment: get_api_key, POST /runs, then the first status poll
FirstEvents == {"no_key", "submit_error"} \cup PollEvents
\* later segments: the loop condition (wall-clock ceiling), then a poll
ResumeEvents == {"ceiling"} \cup PollEvents
\* after SUCCEEDED: _get_dataset_data
FetchEvents == {"fetch_ok", "fetch_no_key", "fetch_error"}

\* What the attempt does at the end of a segment:
\*   "suspend" : asyncio.sleep(10) / asyncio.sleep(5) inside the poll loop
\*   "success" : the success dictionary is returned
\*   "failure" : the except clause of scrape_*_posts returns the error response
\*   "raise"   : an exception leaves scrape_*_posts (raised inside its except
\*               clause, where report_failure and _create_error_response run)
ClientOutcome(ev, fetch, handlerRaises) ==
    CASE ev \in {"RUNNING", "poll_error"}       -> "suspend"
      [] ev = "SUCCEEDED" /\ fetch = "fetch_ok" -> "success"
      [] OTHER -> IF handlerRaises THEN "raise" ELSE "failure"

\* the outcomes a segment can have, over every event of the remote job API
ClientOutcomes(events) ==
    {ClientOutcome(ev, fetch, hr) : ev \in events, fetch \in FetchEvents, hr \in BOOLEAN}

-----------------------------------------------------------------------------
(* Exception handlers.  The exception kinds of the model are "Exception"   *)
(* (anything raised below the orchestrator), "TimeoutError"                *)
(* (asyncio.TimeoutError raised by wait_for) and "CancelledError" (thrown  *)
(* into a cancelled task; a BaseException).                                *)

\* (variant: a handler for one exception class only)
ExceptOnlyTimeoutError(exc) == exc = "TimeoutError"

\* `except Exception as e:` of _execute_single_task_with_fallback
ExceptException(exc) == exc \in {"Exception", "TimeoutError"}

\* (variant: the handler names the builtin TimeoutError, another class before Python 3.11)
ExceptBuiltinTimeoutError(exc) == exc = "builtins.TimeoutError"

\* `except asyncio.TimeoutError:` of _execute_priority_batch
ExceptTimeoutError(exc) == exc = "TimeoutError"

\* (variant: `<=`, one retry too many)
ShouldRetryInclusive(t) == t.retry_count <= t.max_retries

\* `if task.retry_count < task.max_retries:`
ShouldRetry(t) == t.retry_count < t.max_retries

\* `if task.platform in ['facebook', 'instagram'] and COMPONENTS_AVAILABLE:`
UsesRealScraping(p) == p \in {"facebook", "instagram"}

ExceptionResult == [origin |-> "exception"]

-----------------------------------------------------------------------------
(* Initial state: SocialScrapingOrchestrator.__init__ *)

OrchInit ==
    /\ callpc = "idle"
    /\ call = [platforms |-> {}, max_results |-> 0, session_id |-> "s1"]
    /\ tier = 0
    /\ tasks = [p \in Platforms |-> NoTask]
    /\ taskret = [p \in Platforms |-> NoResult]
    /\ results = [p \in Platforms |-> NoResult]
    /\ active_tasks = {}
    /\ completed_tasks = {}
    /\ failed_tasks = {}
    /\ stats = [total_tasks |-> 0, successful_tasks |-> 0, failed_tasks |-> 0,
                fallback_used |-> 0, api_rotations |-> 0]
    /\ report = NoReport
    /\ ncalls = 0
    /\ now = 0
    /\ completed_at = NoEntries
    /\ failed_at = NoEntries

-----------------------------------------------------------------------------
(* execute_comprehensive_scraping, first part: build one task per platform *)

StartCall(ps, m, sid) ==
    /\ callpc \in {"idle", "raised"}
    /\ callpc' = "tiers"
    /\ call' = [platforms |-> ps, max_results |-> m, session_id |-> sid]
    /\ tier' = 0
    /\ tasks' = [p \in Platforms |-> IF p \in ps THEN ScrapingTask(p, m) ELSE NoTask]
    /\ taskret' = [p \in Platforms |-> NoResult]
    /\ results' = [p \in Platforms |-> NoResult]
    /\ report' = NoReport
    /\ UNCHANGED <<active_tasks, completed_tasks, failed_tasks, stats, ncalls>>
    /\ UNCHANGED <<bookvars, poolvars, clientvars, genvars, funvars, timedvars>>

\* (variant: the filter keeps the tasks of this and of every later priority)
TierTasksFrom(t) == {p \in Platforms : tasks[p].pc # "absent" /\ tasks[p].priority >= t}

(* _execute_tasks_with_fallbacks: the tasks of one priority *)
TierTasks(t) == {p \in Platforms : tasks[p].pc # "absent" /\ tasks[p].priority = t}

\* the next `if <tier>:` block whose list is not empty
NextTier == IF \E t \in (tier + 1)..3 : TierTasks(t) # {}
            THEN CHOOSE t \in (tier + 1)..3 :
                     /\ TierTasks(t) # {}
                     /\ \A u \in (tier + 1)..(t - 1) : TierTasks(u) = {}
            ELSE 0

(* _execute_priority_batch, up to the await of wait_for(gather(...)) *)
StartBatch ==
    /\ callpc = "tiers"
    /\ NextTier # 0
    /\ callpc' = "batch"
    /\ tier' = NextTier
    /\ tasks' = [p \in Platforms |->
                   IF p \in TierTasks(NextTier)
                   THEN [tasks[p] EXCEPT !.pc = "ready"] ELSE tasks[p]]
    /\ UNCHANGED <<call, taskret, results, active_tasks, completed_tasks,
                   failed_tasks, stats, report, ncalls>>
    /\ UNCHANGED <<bookvars, poolvars, clientvars, genvars, funvars, timedvars>>

-----------------------------------------------------------------------------
(* _execute_single_task_with_fallback.  `t` is the task on entry of the    *)
(* segment, `co` the outcome of the client segment ("skip": no client for  *)
(* this platform), `n` the number of posts of a success.                   *)

\* (variant: the retry counts twice)
RetryCountSkipping(t) == t.retry_count + 2

\* `task.retry_count += 1`
RetryCountAfterRetry(t) == t.retry_count + 1

\* (variant: the map is replaced by one holding the new entry only)
StoreKeyOnly(keys, k) == {k}

\* `self.completed_tasks[key] = task`, `self.failed_tasks[key] = task`: the keys
StoreKey(keys, k) == keys \cup {k}

\* `self.completed_tasks[key] = task`, as far as the age of the entry goes
StoreTask(entries, k, t) ==
    [q \in DOMAIN entries \cup {k} |-> IF q = k THEN t.created_at ELSE entries[q]]

SingleTask(p, t, co, n) ==
    LET k == Key(call.session_id, p) IN
    CASE co = "suspend" ->
           \* suspended in the poll loop; the key stays in active_tasks
           /\ tasks' = [tasks EXCEPT ![p] = [t EXCEPT !.pc = "polling"]]
           /\ active_tasks' = active_tasks \cup {k}
           /\ UNCHANGED <<taskret, completed_tasks, failed_tasks, stats>>
           /\ UNCHANGED <<completed_at, failed_at>>
      [] co = "success" ->
           /\ tasks' = [tasks EXCEPT ![p] = [t EXCEPT !.pc = "done"]]
           /\ completed_tasks' = StoreKey(completed_tasks, k)
           /\ taskret' = [taskret EXCEPT ![p] = LiveResult(n)]
           /\ completed_at' = StoreTask(completed_at, k, t)
           /\ active_tasks' = active_tasks \ {k}
           /\ UNCHANGED <<failed_tasks, stats, failed_at>>
      [] co \in {"failure", "skip"} ->
           /\ tasks' = [tasks EXCEPT ![p] = [t EXCEPT !.pc = "done"]]
           /\ taskret' = [taskret EXCEPT ![p] = ExecuteFallbackScraping(p, t.max_results)]
           /\ stats' = [stats EXCEPT !.fallback_used = @ + 1]
           /\ completed_tasks' = StoreKey(completed_tasks, k)
           /\ completed_at' = StoreTask(completed_at, k, t)
           /\ active_tasks' = active_tasks \ {k}
           /\ UNCHANGED <<failed_tasks, failed_at>>
      [] co = "raise" /\ ExceptException("Exception") /\ ShouldRetry(t) ->
           \* suspended in asyncio.sleep(2) inside the except clause
           /\ tasks' = [tasks EXCEPT ![p] = [t EXCEPT !.pc = "backoff",
                                                     !.retry_count = RetryCountAfterRetry(t),
                                                     !.raised = @ + 1]]
           /\ active_tasks' = active_tasks \cup {k}
           /\ UNCHANGED <<taskret, completed_tasks, failed_tasks, stats>>
           /\ UNCHANGED <<completed_at, failed_at>>
      [] co = "raise" /\ ExceptException("Exception") /\ ~ShouldRetry(t) ->
           /\ tasks' = [tasks EXCEPT ![p] = [t EXCEPT !.pc = "done", !.raised = @ + 1]]
           /\ failed_tasks' = StoreKey(failed_tasks, k)
           /\ taskret' = [taskret EXCEPT ![p] = CreateErrorResult]
           /\ failed_at' = StoreTask(failed_at, k, t)
           /\ active_tasks' = active_tasks \ {k}
           /\ UNCHANGED <<completed_tasks, stats, completed_at>>
      [] OTHER ->
           \* the exception leaves the coroutine; gather keeps it as a value
           /\ tasks' = [tasks EXCEPT ![p] = [t EXCEPT !.pc = "done", !.raised = @ + 1]]
           /\ taskret' = [taskret EXCEPT ![p] = ExceptionResult]
           /\ active_tasks' = active_tasks \ {k}
           /\ UNCHANGED <<completed_tasks, failed_tasks, stats>>
           /\ UNCHANGED <<completed_at, failed_at>>

\* A task of the running batch runs for the first time.
TaskBegin(p) ==
    /\ callpc = "batch"
    /\ tasks[p].pc = "ready"
    /\ IF UsesRealScraping(p)
       THEN \E co \in ClientOutcomes(FirstEvents), n \in 1..MaxLivePosts :
              SingleTask(p, [tasks[p] EXCEPT !.attempts = @ + 1], co, n)
       ELSE SingleTask(p, tasks[p], "skip", 0)
    /\ UNCHANGED <<callpc, call, tier, results, report, ncalls>>
    /\ UNCHANGED now
    /\ UNCHANGED <<poolvars, clientvars, genvars, funvars, timedvars>>

\* A task suspended in the poll loop of the client wakes up.
TaskResume(p) ==
    /\ callpc = "batch"
    /\ tasks[p].pc = "polling"
    /\ \E co \in ClientOutcomes(ResumeEvents), n \in 1..MaxLivePosts :
           SingleTask(p, tasks[p], co, n)
    /\ UNCHANGED <<callpc, call, tier, results, report, ncalls>>
    /\ UNCHANGED now
    /\ UNCHANGED <<poolvars, clientvars, genvars, funvars, timedvars>>

\* A task suspended in the retry backoff wakes up and calls itself again.
TaskRetry(p) ==
    /\ callpc = "batch"
    /\ tasks[p].pc = "backoff"
    /\ \E co \in ClientOutcomes(FirstEvents), n \in 1..MaxLivePosts :
           SingleTask(p, [tasks[p] EXCEPT !.attempts = @ + 1], co, n)
    /\ UNCHANGED <<callpc, call, tier, results, report, ncalls>>
    /\ UNCHANGED now
    /\ UNCHANGED <<poolvars, clientvars, genvars, funvars, timedvars>>

-----------------------------------------------------------------------------
(* _execute_priority_batch, after the await *)

\* tasks suspended at an await when the timeout of wait_for fires
Outstanding(t) == {p \in TierTasks(t) : tasks[p].pc \in {"polling", "backoff"}}

\* (variant: the handler replaces only the tasks that were still outstanding)
TimeoutFallbackOutstandingOnly(t) ==
    {p \in Platforms : tasks[p].pc # "absent" /\ tasks[p].priority = t
                        /\ tasks[p].pc \in {"polling", "backoff"}}

\* `for task in tasks: results[task.platform] = self._create_fallback_result(task)`
TimeoutFallbackTasks(t) == TierTasks(t)

\* `if isinstance(result, Exception): ... else: results[platform] = result`
GatherResult(r) == IF r.origin = "exception" THEN CreateFallbackResult ELSE r

\* (variant: a cancelled task leaves its key behind)
FinallyKeepCancelled(keys, cancelled) == keys

\* `finally: self.active_tasks.pop(key, None)` in the tasks that are cancelled
FinallyPopCancelled(keys, cancelled) == keys \ cancelled

\* wait_for times out: it cancels gather, which cancels the tasks still
\* suspended (CancelledError passes `except Exception`; `finally` removes the
\* key from active_tasks), and raises asyncio.TimeoutError in the batch.
TierTimeout ==
    /\ callpc = "batch"
    /\ Outstanding(tier) # {}
    /\ \A p \in TierTasks(tier) : tasks[p].pc # "ready"
    /\ tasks' = [p \in Platforms |->
                   IF p \in Outstanding(tier)
                   THEN [tasks[p] EXCEPT !.pc = "cancelled"] ELSE tasks[p]]
    /\ active_tasks' = FinallyPopCancelled(active_tasks,
                           {Key(call.session_id, p) : p \in Outstanding(tier)})
    /\ IF ExceptTimeoutError("TimeoutError")
       THEN /\ results' = [p \in Platforms |->
                             IF p \in TimeoutFallbackTasks(tier)
                             THEN CreateFallbackResult ELSE results[p]]
            /\ callpc' = "tiers"
       ELSE /\ results' = results
            /\ callpc' = "raised"
    /\ UNCHANGED <<call, tier, taskret, completed_tasks, failed_tasks, stats,
                   report, ncalls>>
    /\ UNCHANGED <<bookvars, poolvars, clientvars, genvars, funvars, timedvars>>

\* gather completes: every task of the batch has returned
BatchComplete ==
    /\ callpc = "batch"
    /\ \A p \in TierTasks(tier) : tasks[p].pc = "done"
    /\ results' = [p \in Platforms |->
                     IF p \in TierTasks(tier) THEN GatherResult(taskret[p])
                     ELSE results[p]]
    /\ callpc' = "tiers"
    /\ UNCHANGED <<call, tier, tasks, taskret, active_tasks, completed_tasks,
                   failed_tasks, stats, report, ncalls>>
    /\ UNCHANGED <<bookvars, poolvars, clientvars, genvars, funvars, timedvars>>

-----------------------------------------------------------------------------
(* _compile_final_result and _update_stats *)

RECURSIVE SumResults(_, _)
SumResults(res, S) ==
    IF S = {} THEN 0
    ELSE LET p == CHOOSE q \in S : TRUE
         IN res[p].results + SumResults(res, S \ {p})

ResultKeys(res) == {p \in Platforms : res[p] # NoResult}
\* (variant: a platform counts as successful only when it brought records)
SuccessfulWithRecords(res) ==
    {p \in ResultKeys(res) : res[p].success /\ res[p].results > 0}

Successful(res) == {p \in ResultKeys(res) : res[p].success}
\* (variant: no platform is ever counted as failed)
FailedNever(res) == {}

Failed(res) == {p \in ResultKeys(res) : ~res[p].success}

\* (variant: platforms_analyzed counts the successful platforms only)
CompileFinalResultCountSuccessful(res, sid) ==
    [origin |-> "report",
     success |-> SumResults(res, Successful(res)) > 0,
     session_id |-> sid,
     all_platforms_data |-> [p \in ResultKeys(res) |-> res[p]],
     total_posts |-> SumResults(res, Successful(res)),
     platforms_analyzed |-> Cardinality(Successful(res)),
     successful_platforms |-> Successful(res),
     failed_platforms |-> Failed(res)]

CompileFinalResult(res, sid) ==
    [origin |-> "report",
     success |-> SumResults(res, Successful(res)) > 0,
     session_id |-> sid,
     all_platforms_data |-> [p \in ResultKeys(res) |-> res[p]],
     total_posts |-> SumResults(res, Successful(res)),
     platforms_analyzed |-> Cardinality(ResultKeys(res)),
     successful_platforms |-> Successful(res),
     failed_platforms |-> Failed(res)]

\* (variant: the counters are set to the numbers of the call)
UpdateStatsPerCall(st, res) ==
    [st EXCEPT !.total_tasks = Cardinality(ResultKeys(res)),
               !.successful_tasks = Cardinality(Successful(res)),
               !.failed_tasks = Cardinality(Failed(res))]

\* _update_stats
UpdateStats(st, res) ==
    [st EXCEPT !.total_tasks = @ + Cardinality(ResultKeys(res)),
               !.successful_tasks = @ + Cardinality(Successful(res)),
               !.failed_tasks = @ + Cardinality(Failed(res))]

\* execute_comprehensive_scraping, last part
FinishCall ==
    /\ callpc = "tiers"
    /\ NextTier = 0
    /\ report' = CompileFinalResult(results, call.session_id)
    /\ stats' = UpdateStats(stats, results)
    /\ callpc' = "idle"
    /\ ncalls' = ncalls + 1
    \* the locals of the call are gone
    /\ tier' = 0
    /\ tasks' = [p \in Platforms |-> NoTask]
    /\ taskret' = [p \in Platforms |-> NoResult]
    /\ results' = [p \in Platforms |-> NoResult]
    /\ UNCHANGED <<call, active_tasks, completed_tasks, failed_tasks>>
    /\ UNCHANGED <<bookvars, poolvars, clientvars, genvars, funvars, timedvars>>

-----------------------------------------------------------------------------
(* The bookkeeping of the orchestrator: statistics queries and             *)
(* cleanup_old_tasks, plain methods that run between two steps of a call.  *)

MaxHours == 1
MaxBookCalls == 2
BookSessionIds == {"s1", "s10"}
BookPlatformSets == {{"facebook"}, {"facebook", "youtube"}}
CleanupHours == {0, 1}

\* k.startswith(session_id)
StartsWith(k, sid) == Len(k) >= Len(sid) /\ SubSeq(k, 1, Len(sid)) = sid

\* time passes in the process
Tick ==
    /\ now < MaxHours
    /\ now' = now + 1
    /\ UNCHANGED <<completed_at, failed_at>>
    /\ UNCHANGED <<orchvars, poolvars, clientvars, genvars, funvars, timedvars>>

\* the dictionary get_session_stats returns
SessionStats(sid) ==
    LET active == Cardinality({k \in active_tasks : StartsWith(k, sid)})
        completed == Cardinality({k \in completed_tasks : StartsWith(k, sid)})
        failed == Cardinality({k \in failed_tasks : StartsWith(k, sid)})
    IN  [active_tasks |-> active, completed_tasks |-> completed,
         failed_tasks |-> failed, total_tasks |-> active + completed + failed]

\* the dictionary get_global_stats returns; the rates are held in hundredths
\* of a percent
GlobalStats ==
    [stats |-> stats,
     success_rate |->
         RoundHalfEven(stats.successful_tasks * 10000,
                       IF stats.total_tasks > 1 THEN stats.total_tasks ELSE 1),
     fallback_rate |->
         RoundHalfEven(stats.fallback_used * 10000,
                       IF stats.total_tasks > 1 THEN stats.total_tasks ELSE 1)]

\* a statistics query builds its dictionary from the maps and the counters
\* and writes nothing
GetSessionStats(sid) ==
    /\ SessionStats(sid).total_tasks >= 0
    /\ UNCHANGED vars

GetGlobalStats ==
    /\ GlobalStats.stats = stats
    /\ UNCHANGED vars

\* (variant: `<=`, an entry as old as the cutoff goes too)
IsOldInclusive(created_at, cutoff) == created_at <= cutoff

\* `if task.created_at < cutoff_time`
IsOld(created_at, cutoff) == created_at < cutoff

\* the entries cleanup_old_tasks keeps of one map, cutoff_time being now - hours_old
KeptEntries(entries, hours_old) ==
    [k \in {q \in DOMAIN entries : ~IsOld(entries[q], now - hours_old)} |-> entries[k]]

CleanupOldTasks(hours_old) ==
    /\ completed_at' = KeptEntries(completed_at, hours_old)
    /\ completed_tasks' = DOMAIN KeptEntries(completed_at, hours_old)
    /\ failed_at' = KeptEntries(failed_at, hours_old)
    /\ failed_tasks' = DOMAIN KeptEntries(failed_at, hours_old)
    /\ UNCHANGED now
    /\ UNCHANGED <<callpc, call, tier, tasks, taskret, results, active_tasks, stats,
                   report, ncalls>>
    /\ UNCHANGED <<poolvars, clientvars, genvars, funvars, timedvars>>

-----------------------------------------------------------------------------
(* The key pool of scrapers/: ApifyFacebookScraper / ApifyInstagramScraper *)
(* with concurrent scrape_*_posts coroutines on one event loop.  A         *)
(* coroutine keeps the loop until it reaches an await that suspends it.    *)

\* _load_api_keys: the keys found in the environment, in order
KeyLists == UNION {[1..n -> KeyNames] : n \in 0..MaxKeys}

PoolIdle ==
    /\ api_keys = <<>>
    /\ current_key_index = 0
    /\ ppc = [c \in Callers |-> "idle"]
    /\ plocal = [c \in Callers |-> "none"]
    /\ pout = [c \in Callers |-> "none"]
    /\ pcount = 0
    /\ running = 0
    /\ handed = <<>>

PoolInit ==
    /\ api_keys \in KeyLists
    /\ current_key_index = 0
    /\ ppc = [c \in Callers |-> "idle"]
    /\ plocal = [c \in Callers |-> "none"]
    /\ pout = [c \in Callers |-> "none"]
    /\ pcount = 0
    /\ running = 0
    /\ handed = <<>>

\* (variant: the cursor advances by two)
NextIndexSkip(i, n) == (i + 2) % n

\* `(self.current_key_index + 1) % len(self.api_keys)`
NextIndex(i, n) == (i + 1) % n

\* (variant: a switch of coroutine after every statement, as with threads)
SuspensionPointEveryStatement(pc) == pc \in {"read", "advance", "sleep", "idle"}

\* where a coroutine gives the event loop back: `await asyncio.sleep(2)` in
\* scrape_*_posts, and the end of the coroutine
SuspensionPoint(pc) == pc \in {"sleep", "idle"}

CanRun(c) == running \in {0, c}
Schedule(c) == running' = IF SuspensionPoint(ppc'[c]) THEN 0 ELSE c

\* (variant: the test is missing, the list is indexed whatever its length)
PoolIsEmptyNever(keys) == FALSE

\* `if not self.api_keys:` of _get_next_api_key
PoolIsEmpty(keys) == Len(keys) = 0

\* scrape_*_posts is called; _get_next_api_key tests `if not self.api_keys`
PoolEnter(c) ==
    /\ ppc[c] = "idle"
    /\ CanRun(c)
    /\ pcount < MaxPoolCalls
    /\ pcount' = pcount + 1
    /\ IF PoolIsEmpty(api_keys)
       THEN \* returns None; scrape_*_posts raises "Nenhuma chave ..."
            /\ ppc' = [ppc EXCEPT ![c] = "idle"]
            /\ plocal' = [plocal EXCEPT ![c] = "None"]
            /\ pout' = [pout EXCEPT ![c] = "raise"]
       ELSE /\ ppc' = [ppc EXCEPT ![c] = "read"]
            /\ plocal' = [plocal EXCEPT ![c] = "none"]
            /\ pout' = [pout EXCEPT ![c] = "none"]
    /\ Schedule(c)
    /\ UNCHANGED <<api_keys, current_key_index, handed>>
    /\ UNCHANGED <<orchvars, clientvars, genvars, bookvars, funvars, timedvars>>

\* `key = self.api_keys[self.current_key_index]`
PoolRead(c) ==
    /\ ppc[c] = "read"
    /\ CanRun(c)
    /\ plocal' = [plocal EXCEPT ![c] = api_keys[current_key_index + 1]]
    /\ handed' = Append(handed, [index |-> current_key_index,
                                 key |-> api_keys[current_key_index + 1]])
    /\ ppc' = [ppc EXCEPT ![c] = "advance"]
    /\ Schedule(c)
    /\ UNCHANGED <<api_keys, current_key_index, pout, pcount>>
    /\ UNCHANGED <<orchvars, clientvars, genvars, bookvars, funvars, timedvars>>

\* `self.current_key_index = (self.current_key_index + 1) % len(self.api_keys)`,
\* `return key`, and scrape_*_posts up to `await asyncio.sleep(2)`
PoolAdvance(c) ==
    /\ ppc[c] = "advance"
    /\ CanRun(c)
    /\ current_key_index' = NextIndex(current_key_index, Len(api_keys))
    /\ ppc' = [ppc EXCEPT ![c] = "sleep"]
    /\ Schedule(c)
    /\ UNCHANGED <<api_keys, plocal, pout, pcount, handed>>
    /\ UNCHANGED <<orchvars, clientvars, genvars, bookvars, funvars, timedvars>>

\* the sleep ends; the call returns its success dictionary
PoolWake(c) ==
    /\ ppc[c] = "sleep"
    /\ CanRun(c)
    /\ ppc' = [ppc EXCEPT ![c] = "idle"]
    /\ pout' = [pout EXCEPT ![c] = "success"]
    /\ Schedule(c)
    /\ UNCHANGED <<api_keys, current_key_index, plocal, pcount, handed>>
    /\ UNCHANGED <<orchvars, clientvars, genvars, bookvars, funvars, timedvars>>

-----------------------------------------------------------------------------
(* The job lifecycle client of services/: one attempt of scrape_*_posts.   *)
(* Exception kinds: "RequestException" (requests.exceptions, raised by the *)
(* HTTP call or raise_for_status), "KeyError" (a response without the      *)
(* expected fields), "Exception" (raised by the client itself).            *)

MaxWaitSeconds == MaxWaitMinutes * 60

\* time a status request takes before it answers (its timeout is 10 s)
RequestDurations == {0, 5}

TerminalStatuses == {"SUCCEEDED", "FAILED", "ABORTED", "TIMED-OUT"}
SubmitEvents == {"submit_ok", "submit_error", "malformed"}
ClientPollEvents == PollEvents \cup {"malformed"}

ClientIdle ==
    /\ cpc = "idle"
    /\ cstatus = "none"
    /\ celapsed = 0
    /\ csleep = 0
    /\ cerrors = 0
    /\ clast = "none"
    /\ cfetch = "none"
    /\ creports = <<>>
    /\ cerror = "none"
    /\ cout = "none"

\* (variant: the loop has no ceiling)
LoopContinuesForever(elapsed) == elapsed >= 0

\* `while time.time() - start_time < max_wait_seconds:`
LoopContinues(elapsed) == elapsed < MaxWaitSeconds

\* (variant: the loop returns on every terminal status)
PollReturnsOnTerminal(status) == status \in {"SUCCEEDED", "FAILED", "ABORTED", "TIMED-OUT"}

\* `if status == 'SUCCEEDED': ... return`
PollReturns(status) == status = "SUCCEEDED"

\* (variant: the branch of ABORTED and TIMED-OUT is missing)
PollRaisesOnFailedOnly(status) == status = "FAILED"

\* `elif status == 'FAILED': raise ...` and `elif status in ['ABORTED', 'TIMED-OUT']: raise ...`
PollRaises(status) == status \in {"FAILED", "ABORTED", "TIMED-OUT"}

\* (variant: the loop has no handler)
PollLoopCatchesNothing(exc) == exc = "none"

\* `except requests.exceptions.RequestException as e:` of _wait_for_completion
PollLoopCatches(exc) == exc = "RequestException"

\* `except requests.exceptions.RequestException as e:` of _run_actor
RunActorCatches(exc) == exc = "RequestException"

\* (variant: the handler of scrape_*_posts names RequestException only)
ScrapeCatchesRequestException(exc) == exc = "RequestException"

\* `except Exception as e:` of scrape_*_posts
ScrapeCatches(exc) == exc \in {"RequestException", "KeyError", "Exception"}

\* (variant: the call is missing)
RunSucceededReportsNothing(reps) == reps

\* `api_rotation_manager.report_success('APIFY')` of _run_actor, after
\* _wait_for_completion has returned
RunSucceededReports(reps) == Append(reps, "report_success")

\* the report_failure calls made while exception exc travels to the caller:
\* in the handler of _run_actor when raised inside its try, then in the
\* handler of scrape_*_posts
FailureReports(reps, exc, inTry) ==
    LET r1 == IF inTry /\ RunActorCatches(exc)
              THEN Append(reps, "report_failure") ELSE reps
    IN  IF ScrapeCatches(exc) THEN Append(r1, "report_failure") ELSE r1

\* exception exc ends the attempt: scrape_*_posts returns its error
\* response, unless its handler does not apply or raises itself
ClientFail(err, exc, inTry) ==
    /\ cpc' = "done"
    /\ cerror' = err
    /\ creports' = FailureReports(creports, exc, inTry)
    /\ \E handlerRaises \in BOOLEAN :
           cout' = IF ScrapeCatches(exc) /\ ~handlerRaises THEN "failure" ELSE "raise"


\* scrape_*_posts is called; _run_actor asks get_api_key for a key
ClientStart ==
    /\ cpc \in {"idle", "done"}
    /\ cstatus' = "none"
    /\ celapsed' = 0
    /\ csleep' = 0
    /\ cerrors' = 0
    /\ cfetch' = "none"
    /\ clast' = "get_api_key"
    /\ \E key \in {"key", "None"} :
           IF key = "None"
           THEN \* `raise Exception("Nenhuma chave ...")`, before the try of _run_actor
                /\ cpc' = "done"
                /\ cerror' = "no_key"
                /\ creports' = FailureReports(<<>>, "Exception", FALSE)
                /\ \E handlerRaises \in BOOLEAN :
                       cout' = IF ScrapeCatches("Exception") /\ ~handlerRaises
                               THEN "failure" ELSE "raise"
           ELSE /\ cpc' = "submit"
                /\ cerror' = "none"
                /\ creports' = <<>>
                /\ cout' = "none"
    /\ UNCHANGED <<orchvars, poolvars, genvars, bookvars, funvars, timedvars>>

\* _run_actor: POST /acts/<actor>/runs, then _wait_for_completion sets start_time
ClientSubmit ==
    /\ cpc = "submit"
    /\ clast' = "submit"
    /\ \E ev \in SubmitEvents :
           CASE ev = "submit_ok" ->
                    /\ cstatus' = "SUBMITTED"
                    /\ cpc' = "loop"
                    /\ UNCHANGED <<creports, cerror, cout>>
             [] ev = "submit_error" ->
                    /\ ClientFail("submit_error", "RequestException", TRUE)
                    /\ UNCHANGED cstatus
             [] OTHER ->
                    /\ ClientFail("malformed", "KeyError", TRUE)
                    /\ UNCHANGED cstatus
    /\ UNCHANGED <<celapsed, csleep, cerrors, cfetch>>
    /\ UNCHANGED <<orchvars, poolvars, genvars, bookvars, funvars, timedvars>>

\* one turn of the loop of _wait_for_completion: the loop condition, the
\* status request and what the loop does with the answer
ClientPoll ==
    /\ cpc = "loop"
    /\ IF ~LoopContinues(celapsed)
       THEN \* `raise Exception(f"Timeout aguardando ...")`
            /\ ClientFail("ceiling", "Exception", TRUE)
            /\ clast' = "raise"
            /\ UNCHANGED <<cstatus, celapsed, csleep, cerrors>>
       ELSE /\ \E dur \in RequestDurations : celapsed' = celapsed + dur
            /\ \E ev \in ClientPollEvents :
                /\ clast' = IF ev = "poll_error" THEN "poll_error" ELSE "poll"
                /\ CASE ev = "poll_error" /\ PollLoopCatches("RequestException") ->
                            /\ cpc' = "sleep"
                            /\ csleep' = PollErrorBackoff
                            /\ cerrors' = Min(cerrors + 1, MaxPollErrors)
                            /\ UNCHANGED <<cstatus, creports, cerror, cout>>
                     [] ev = "poll_error" /\ ~PollLoopCatches("RequestException") ->
                            /\ ClientFail("poll_error", "RequestException", TRUE)
                            /\ UNCHANGED <<cstatus, csleep, cerrors>>
                     [] ev = "malformed" ->
                            /\ ClientFail("malformed", "KeyError", TRUE)
                            /\ UNCHANGED <<cstatus, csleep, cerrors>>
                     [] ev \in TerminalStatuses /\ PollReturns(ev) ->
                            \* _run_actor goes on: report_success, return
                            /\ cstatus' = ev
                            /\ cpc' = "fetch"
                            /\ creports' = RunSucceededReports(creports)
                            /\ UNCHANGED <<csleep, cerrors, cerror, cout>>
                     [] ev \in TerminalStatuses /\ ~PollReturns(ev) /\ PollRaises(ev) ->
                            /\ cstatus' = ev
                            /\ ClientFail(ev, "Exception", TRUE)
                            /\ UNCHANGED <<csleep, cerrors>>
                     [] OTHER ->
                            \* "Status ainda em execução": asyncio.sleep(10)
                            /\ cstatus' = IF ev \in TerminalStatuses THEN ev ELSE "RUNNING"
                            /\ cpc' = "sleep"
                            /\ csleep' = PollInterval
                            /\ UNCHANGED <<cerrors, creports, cerror, cout>>
    /\ UNCHANGED cfetch
    /\ UNCHANGED <<orchvars, poolvars, genvars, bookvars, funvars, timedvars>>

\* the asyncio.sleep of the loop ends
ClientWake ==
    /\ cpc = "sleep"
    /\ cpc' = "loop"
    /\ celapsed' = celapsed + csleep
    /\ csleep' = 0
    /\ clast' = "sleep"
    /\ UNCHANGED <<cstatus, cerrors, cfetch, creports, cerror, cout>>
    /\ UNCHANGED <<orchvars, poolvars, genvars, bookvars, funvars, timedvars>>

\* _get_dataset_data, then the success dictionary of scrape_*_posts
ClientFetch ==
    /\ cpc = "fetch"
    /\ clast' = "fetch"
    /\ \E ev \in FetchEvents :
           CASE ev = "fetch_ok" ->
                    /\ cfetch' = "sent"
                    /\ cpc' = "done"
                    /\ cout' = "success"
                    /\ UNCHANGED <<creports, cerror>>
             [] ev = "fetch_error" ->
                    /\ cfetch' = "sent"
                    /\ ClientFail("fetch_error", "RequestException", FALSE)
             [] OTHER ->
                    \* get_api_key gave no key: raise before the request
                    /\ cfetch' = "none"
                    /\ ClientFail("fetch_no_key", "Exception", FALSE)
    /\ UNCHANGED <<cstatus, celapsed, csleep, cerrors>>
    /\ UNCHANGED <<orchvars, poolvars, genvars, bookvars, funvars, timedvars>>

-----------------------------------------------------------------------------
(* The generators of synthetic posts: _simulate_*_data of                  *)
(* social_media_extractor.py, which the orchestrator falls back to, and    *)
(* _generate_simulated_*_posts of apify_viral_extractor.py.                *)

GenPlatforms == {"facebook", "instagram", "youtube", "twitter", "linkedin"}
ViralPlatforms == {"facebook", "instagram"}
GenQueries == {"x", "y"}
HashSeeds == {0, 1}
PublishedAt == "2024-08-01T00:00:00Z"

\* hash(query + str(i)): fixed by the string and the seed of the process
StrHash(q, i, seed) == <<q, i, seed>>

\* (variant: every record carries the counts of the first one)
SimulatedRecordFlat(p, q, i, seed) ==
    [platform |-> p, author |-> i + 1, published_at |-> PublishedAt,
     like_count |-> 45, comment_count |-> 12, share_count |-> 8,
     url |-> StrHash(q, i, seed), query |-> q]

\* the dictionary appended for index i (from 0) by _simulate_<p>_data
SimulatedRecord(p, q, i, seed) ==
    CASE p = "facebook" ->
             [platform |-> p, author |-> i + 1, published_at |-> PublishedAt,
              like_count |-> (i + 1) * 45, comment_count |-> (i + 1) * 12,
              share_count |-> (i + 1) * 8, url |-> StrHash(q, i, seed), query |-> q]
      [] p = "youtube" ->
             [platform |-> p, channel |-> i + 1, published_at |-> PublishedAt,
              view_count |-> (i + 1) * 1500, like_count |-> (i + 1) * 120,
              comment_count |-> (i + 1) * 45, url |-> i + 1, query |-> q]
      [] p = "twitter" ->
             [platform |-> p, author |-> i + 1, created_at |-> PublishedAt,
              retweet_count |-> (i + 1) * 15, like_count |-> (i + 1) * 35,
              reply_count |-> (i + 1) * 8, quote_count |-> (i + 1) * 5,
              url |-> i + 1, query |-> q]
      [] OTHER ->
             [platform |-> p, username |-> i + 1, timestamp |-> PublishedAt,
              like_count |-> (i + 1) * 250, comment_count |-> (i + 1) * 18,
              follower_count |-> (i + 1) * 5000, url |-> i + 1, query |-> q]

\* the `results` list of the dictionary _execute_fallback_scraping returns
SimulatedRecords(p, q, m, seed) ==
    [k \in 1..ExecuteFallbackScraping(p, m).results |-> SimulatedRecord(p, q, k - 1, seed)]

\* (variant: the post id, too, carries the time of the call)
ViralPostStampedId(p, q, i, seed, clock, thumb) ==
    [platform |-> p, post_id |-> <<q, i, seed, clock>>, query |-> q,
     like_count |-> 0, comment_count |-> 0, share_count |-> 0, view_count |-> 0,
     total_engagement |-> 0, author_followers |-> 0,
     local_thumbnail_path |-> <<>>, created_at |-> clock, extracted_at |-> clock]

\* the ViralPost built for index i (from 0) by _generate_simulated_<p>_posts;
\* thumb: whether download_thumbnail stored the picture
ViralPost(p, q, i, seed, clock, thumb) ==
    LET m == IF p = "instagram"
             THEN [likes |-> 5000 - (i * 300), comments |-> 150 - (i * 10),
                   shares |-> 0, views |-> 25000 - (i * 1500)]
             ELSE [likes |-> 2000 - (i * 150), comments |-> 80 - (i * 8),
                   shares |-> 50 - (i * 5), views |-> 0]
    IN  [platform |-> p, post_id |-> StrHash(q, i, seed), query |-> q,
         like_count |-> m.likes, comment_count |-> m.comments,
         share_count |-> m.shares, view_count |-> m.views,
         total_engagement |-> m.likes + m.comments + m.shares + m.views,
         author_followers |-> IF p = "instagram" THEN 50000 + (i * 10000)
                              ELSE 25000 + (i * 5000),
         local_thumbnail_path |-> IF thumb THEN <<i, clock>> ELSE <<>>,
         created_at |-> clock, extracted_at |-> clock]

\* `for i in range(max_posts):` of _generate_simulated_<p>_posts
ViralPosts(p, q, m, seed, clock, thumb) ==
    [k \in 1..RangeLen(m) |-> ViralPost(p, q, k - 1, seed, clock, thumb)]

\* one call of the generator named by in
Generate(in, seed, clock, thumb) ==
    IF in.gen = "simulate"
    THEN [result |-> ExecuteFallbackScraping(in.platform, in.max_results),
          records |-> SimulatedRecords(in.platform, in.query, in.max_results, seed)]
    ELSE [result |-> [origin |-> "viral", success |-> TRUE, data_source |-> "none",
                      results |-> RangeLen(in.max_results), posts |-> 0],
          records |-> ViralPosts(in.platform, in.query, in.max_results, seed, clock, thumb)]

NoOutput == [result |-> NoResult, records |-> <<>>]
NoInput == [gen |-> "none", platform |-> "none", query |-> "none", max_results |-> 0]

GenIdle ==
    /\ gpc = "init"
    /\ gin = NoInput
    /\ gseed = 0
    /\ gclock = 0
    /\ gout1 = NoOutput
    /\ gout2 = NoOutput

GenInputs ==
    {[gen |-> g, platform |-> p, query |-> q, max_results |-> m] :
        g \in {"simulate", "viral"}, p \in GenPlatforms, q \in GenQueries,
        m \in 0..MaxGenResults}

GenInit ==
    /\ gpc = "init"
    /\ gin \in {in \in GenInputs : in.gen = "viral" => in.platform \in ViralPlatforms}
    /\ gseed \in HashSeeds
    /\ gclock = 0
    /\ gout1 = NoOutput
    /\ gout2 = NoOutput

\* the generator is called with the arguments gin
GenCall ==
    /\ gpc = "init"
    /\ gpc' = "once"
    /\ \E thumb \in BOOLEAN : gout1' = Generate(gin, gseed, gclock, thumb)
    /\ UNCHANGED <<gin, gseed, gclock, gout2>>
    /\ UNCHANGED <<orchvars, poolvars, clientvars, bookvars, funvars, timedvars>>

\* time passes in the process
GenTick ==
    /\ gclock < MaxGenClock
    /\ gclock' = gclock + 1
    /\ UNCHANGED <<gpc, gin, gseed, gout1, gout2>>
    /\ UNCHANGED <<orchvars, poolvars, clientvars, bookvars, funvars, timedvars>>

\* the generator is called again with the same arguments
GenCallAgain ==
    /\ gpc = "once"
    /\ gpc' = "twice"
    /\ \E thumb \in BOOLEAN : gout2' = Generate(gin, gseed, gclock, thumb)
    /\ UNCHANGED <<gin, gseed, gclock, gout1>>
    /\ UNCHANGED <<orchvars, poolvars, clientvars, bookvars, funvars, timedvars>>

-----------------------------------------------------------------------------
(* Pure functions of the services, called once on arguments drawn by the   *)
(* initial state.                                                          *)

NoArguments == [fn |-> "none"]
NoValue == [fn |-> "none"]

FunIdle ==
    /\ fpc = "init"
    /\ fin = NoArguments
    /\ fout = NoValue

-----------------------------------------------------------------------------
(* ApifyViralExtractor.calculate_virality_score.  The floats of the code   *)
(* are kept as exact fractions n / d of integers; a score is held in       *)
(* hundredths, which is what round(x, 2) leaves of it.                     *)

\* platform.lower()
Lower(platform) ==
    CASE platform = "Instagram" -> "instagram"
      [] platform = "Facebook" -> "facebook"
      [] OTHER -> platform

\* 20 * base_score: the weights of the platform, in twentieths
BaseScore20(m, platform) ==
    CASE Lower(platform) = "instagram" ->
             (m.likes * 20) + (m.comments * 40) + (m.shares * 60) + (m.views * 2)
      [] Lower(platform) = "facebook" ->
             (m.likes * 16) + (m.comments * 30) + (m.shares * 80) + (m.views * 1)
      [] OTHER ->
             (m.likes * 20) + (m.comments * 30) + (m.shares * 40) + (m.views * 2)

\* virality_score as the fraction <<n, d>>:
\* (base_score * 0.7) + (base_score / author_followers * 1000 * 0.3)
ViralityScore(m, platform, followers) ==
    LET b == BaseScore20(m, platform)
    IN  IF followers > 0
        THEN <<b * ((7 * followers) + 3000), 200 * followers>>
        ELSE <<b, 20>>

\* (variant: the score is rounded, not clamped)
NormalizedScoreUnclamped(v) == RoundHalfEven(v[1], v[2])

\* round(min(100, max(0, virality_score / 100)), 2), in hundredths
NormalizedScore(v) ==
    IF v[1] >= 10000 * v[2] THEN 10000
    ELSE IF v[1] <= 0 THEN 0
    ELSE RoundHalfEven(v[1], v[2])

CalculateViralityScore(m, platform, followers) ==
    NormalizedScore(ViralityScore(m, platform, followers))

MaxMetric == 1000
MetricValues == {0, 1, 7, MaxMetric}
FollowerValues == {0, 1, 50, 1000}
ScorePlatforms == {"Instagram", "facebook", "tiktok"}

ScoreInit ==
    /\ fpc = "init"
    /\ fin \in [fn : {"calculate_virality_score"},
                engagement_metrics : [likes : MetricValues, comments : MetricValues,
                                      shares : MetricValues, views : MetricValues],
                platform : ScorePlatforms,
                author_followers : FollowerValues]
    /\ fout = NoValue

ScoreCall ==
    /\ fpc = "init"
    /\ fin.fn = "calculate_virality_score"
    /\ fpc' = "done"
    /\ fout' = [fn |-> fin.fn,
                score |-> CalculateViralityScore(fin.engagement_metrics, fin.platform,
                                                 fin.author_followers)]
    /\ UNCHANGED fin
    /\ UNCHANGED <<orchvars, poolvars, clientvars, genvars, bookvars, timedvars>>

-----------------------------------------------------------------------------
(* SocialMediaExtractor.analyze_sentiment_trends.  A post is held as the   *)
(* value of post.get('sentiment', 'neutral'); a percentage is held in      *)
(* tenths, which is what round(x, 1) leaves of it.                         *)

MaxSentimentPosts == 3
SentimentInputPlatforms == {"facebook", "instagram", "twitter"}

\* `if platform_name in ['youtube', 'twitter', 'instagram', 'linkedin']:`
AnalyzedPlatforms == {"youtube", "twitter", "instagram", "linkedin"}

\* a `results` list with p positive, n negative and u neutral posts
PostsOf(p, n, u) ==
    [i \in 1..(p + n + u) |->
        IF i <= p THEN "positive" ELSE IF i <= p + n THEN "negative" ELSE "neutral"]

\* the if / elif / else of the loop over the posts: the posts counted as `label`
CountPosts(posts, label) ==
    Cardinality({i \in 1..Len(posts) :
        CASE label = "positive" -> posts[i] = "positive"
          [] label = "negative" -> posts[i] = "negative"
          [] OTHER -> posts[i] \notin {"positive", "negative"}})

RECURSIVE SumOver(_, _)
SumOver(f, S) ==
    IF S = {} THEN 0
    ELSE LET x == CHOOSE y \in S : TRUE IN f[x] + SumOver(f, S \ {x})

\* round(count / total * 100, 1), in tenths
Percentage(count, total) == RoundHalfEven(count * 1000, total)

\* 'positive' if ... else 'negative' if platform_negative > platform_positive else 'neutral'
DominantSentiment(p, n, u) ==
    IF p > n /\ p > u THEN "positive"
    ELSE IF n > p THEN "negative" ELSE "neutral"

\* the if / elif after the loop
OverallSentiment(p, n, u) ==
    IF p > n /\ p > u THEN "positive"
    ELSE IF n > p /\ n > u THEN "negative" ELSE "neutral"

\* (variant: the score is not rounded; it is held in tenths when that is exact)
ConfidenceScoreExact(p, n, total) ==
    IF total > 0
    THEN IF (1000 * (IF p > n THEN p - n ELSE n - p)) % total = 0
         THEN (1000 * (IF p > n THEN p - n ELSE n - p)) \div total
         ELSE -1
    ELSE 0

\* round(abs(total_positive - total_negative) / total_posts * 100, 1) if total_posts > 0 else 0
ConfidenceScore(p, n, total) ==
    IF total > 0
    THEN RoundHalfEven(1000 * (IF p > n THEN p - n ELSE n - p), total)
    ELSE 0

AnalyzeSentimentTrends(platforms_data) ==
    LET analyzed == DOMAIN platforms_data \cap AnalyzedPlatforms
        counts == [label \in {"positive", "negative", "neutral"} |->
                     SumOver([q \in analyzed |-> CountPosts(platforms_data[q].results, label)],
                             analyzed)]
        total_posts == SumOver([q \in analyzed |-> Len(platforms_data[q].results)], analyzed)
        pos(q) == CountPosts(platforms_data[q].results, "positive")
        neg(q) == CountPosts(platforms_data[q].results, "negative")
        neu(q) == CountPosts(platforms_data[q].results, "neutral")
    IN  [fn |-> "analyze_sentiment_trends",
         overall_sentiment |->
             OverallSentiment(counts["positive"], counts["negative"], counts["neutral"]),
         overall_positive_percentage |->
             IF total_posts > 0 THEN Percentage(counts["positive"], total_posts) ELSE 0,
         overall_negative_percentage |->
             IF total_posts > 0 THEN Percentage(counts["negative"], total_posts) ELSE 0,
         overall_neutral_percentage |->
             IF total_posts > 0 THEN Percentage(counts["neutral"], total_posts) ELSE 0,
         total_posts_analyzed |-> total_posts,
         platform_breakdown |->
             [q \in {r \in analyzed : Len(platforms_data[r].results) > 0} |->
                 [positive_percentage |-> Percentage(pos(q), Len(platforms_data[q].results)),
                  negative_percentage |-> Percentage(neg(q), Len(platforms_data[q].results)),
                  neutral_percentage |-> Percentage(neu(q), Len(platforms_data[q].results)),
                  total_posts |-> Len(platforms_data[q].results),
                  dominant_sentiment |-> DominantSentiment(pos(q), neg(q), neu(q))]],
         confidence_score |->
             ConfidenceScore(counts["positive"], counts["negative"], total_posts),
         \* the locals total_positive, total_negative, total_neutral on return
         counted |-> counts]

\* the `results` lists of the platform results handed to the summary
ResultLists ==
    {PostsOf(c[1], c[2], c[3]) :
        c \in {d \in (0..MaxSentimentPosts) \X (0..MaxSentimentPosts) \X (0..MaxSentimentPosts) :
                  d[1] + d[2] + d[3] <= MaxSentimentPosts}}

SentimentInit ==
    /\ fpc = "init"
    /\ \E ps \in SUBSET SentimentInputPlatforms :
         \E data \in [ps -> [results : ResultLists]] :
            fin = [fn |-> "analyze_sentiment_trends", platforms_data |-> data]
    /\ fout = NoValue

SentimentCall ==
    /\ fpc = "init"
    /\ fin.fn = "analyze_sentiment_trends"
    /\ fpc' = "done"
    /\ fout' = AnalyzeSentimentTrends(fin.platforms_data)
    /\ UNCHANGED fin
    /\ UNCHANGED <<orchvars, poolvars, clientvars, genvars, bookvars, timedvars>>

-----------------------------------------------------------------------------
(* The wall-clock time of a batch *)

HighTierTimeout == 600
LowerTierTimeout == 300
SubmitRequestTimeout == 30
StatusRequestTimeout == 10
DatasetRequestTimeout == 30

\* `timeout = 600 if tasks[0].priority == 1 else 300`
\* (variant: the tiers wait longer than the poll loop of the client)
TierTimeoutOfLong(t) == 2 * HighTierTimeout

\* `timeout = 600 if priority == 1 else 300`
TierTimeoutOf(t) == IF t = 1 THEN HighTierTimeout ELSE LowerTierTimeout

\* how long a call of requests with timeout=limit keeps the thread, and with
\* it the event loop: the remote side answers at once, after 5 s or at the limit
BlockingDurations(limit) == {0, 5, limit}

Max(a, b) == IF a > b THEN a ELSE b

TimedIdle ==
    /\ wpc = "idle"
    /\ wtier = 0
    /\ wclock = 0
    /\ wstart = 0
    /\ wwake = 0
    /\ wresolved = "none"

\* the batch resolves at the present time
TimedResolve(how, at) ==
    /\ wpc' = "resolved"
    /\ wresolved' = how
    /\ wclock' = at

\* _execute_priority_batch starts wait_for(gather(...)) on a tier.  The tasks
\* of a tier below HIGH call the generator and return without suspending.
TimedStartBatch(t) ==
    /\ wpc = "idle"
    /\ wtier' = t
    /\ IF t = 1
       THEN /\ wpc' = "submit"
            /\ UNCHANGED <<wclock, wresolved>>
       ELSE TimedResolve("complete", wclock)
    /\ UNCHANGED <<wstart, wwake>>
    /\ UNCHANGED <<orchvars, poolvars, clientvars, genvars, bookvars, funvars>>

\* _run_actor: the POST that starts the run keeps the loop for d seconds
TimedSubmit ==
    /\ wpc = "submit"
    /\ \E d \in BlockingDurations(SubmitRequestTimeout), ev \in {"submit_ok", "submit_error"} :
         IF ev = "submit_ok"
         THEN /\ wpc' = "loop"
              /\ wclock' = wclock + d
              /\ wstart' = wclock + d
              /\ UNCHANGED wresolved
         ELSE \* failure result, generator data: the task and the batch are done
              /\ TimedResolve("complete", wclock + d)
              /\ UNCHANGED wstart
    /\ UNCHANGED <<wtier, wwake>>
    /\ UNCHANGED <<orchvars, poolvars, clientvars, genvars, bookvars, funvars>>

\* one turn of the loop of _wait_for_completion: the GET of the status keeps
\* the loop for d seconds
TimedPoll ==
    /\ wpc = "loop"
    /\ IF LoopContinues(wclock - wstart)
       THEN \E d \in BlockingDurations(StatusRequestTimeout), ev \in PollEvents :
              CASE ev = "RUNNING" ->
                     /\ wpc' = "sleep"
                     /\ wclock' = wclock + d
                     /\ wwake' = wclock + d + PollInterval
                     /\ UNCHANGED wresolved
                [] ev = "poll_error" ->
                     /\ wpc' = "sleep"
                     /\ wclock' = wclock + d
                     /\ wwake' = wclock + d + PollErrorBackoff
                     /\ UNCHANGED wresolved
                [] ev = "SUCCEEDED" ->
                     /\ wpc' = "fetch"
                     /\ wclock' = wclock + d
                     /\ UNCHANGED <<wwake, wresolved>>
                [] OTHER ->
                     /\ TimedResolve("complete", wclock + d)
                     /\ UNCHANGED wwake
       ELSE /\ TimedResolve("complete", wclock)
            /\ UNCHANGED wwake
    /\ UNCHANGED <<wtier, wstart>>
    /\ UNCHANGED <<orchvars, poolvars, clientvars, genvars, bookvars, funvars>>

\* the task is suspended and its sleep ends before the timeout of wait_for
TimedWake ==
    /\ wpc = "sleep"
    /\ wwake <= TierTimeoutOf(wtier)
    /\ wpc' = "loop"
    /\ wclock' = Max(wclock, wwake)
    /\ UNCHANGED <<wtier, wstart, wwake, wresolved>>
    /\ UNCHANGED <<orchvars, poolvars, clientvars, genvars, bookvars, funvars>>

\* the task is suspended and the timer of wait_for is due: the loop, free
\* again, runs it now, however long ago it was due
TimedTimeout ==
    /\ wpc = "sleep"
    /\ TierTimeoutOf(wtier) <= wwake
    /\ TimedResolve("timeout", Max(wclock, TierTimeoutOf(wtier)))
    /\ UNCHANGED <<wtier, wstart, wwake>>
    /\ UNCHANGED <<orchvars, poolvars, clientvars, genvars, bookvars, funvars>>

\* _get_dataset_data: the GET of the items keeps the loop for d seconds; the
\* task returns and gather completes
TimedFetch ==
    /\ wpc = "fetch"
    /\ \E d \in BlockingDurations(DatasetRequestTimeout) :
         TimedResolve("complete", wclock + d)
    /\ UNCHANGED <<wtier, wstart, wwake>>
    /\ UNCHANGED <<orchvars, poolvars, clientvars, genvars, bookvars, funvars>>

-----------------------------------------------------------------------------
(* Specifications *)

Init == OrchInit /\ PoolIdle /\ ClientIdle /\ GenIdle /\ FunIdle /\ TimedIdle

\* a caller calls execute_comprehensive_scraping
NewCall ==
    \E ps \in SUBSET Platforms, m \in ResultLimits, sid \in SessionIds :
        ncalls < MaxCalls /\ StartCall(ps, m, sid)

Next ==
    \/ NewCall
    \/ StartBatch
    \/ \E p \in Platforms : TaskBegin(p)
    \/ \E p \in Platforms : TaskResume(p)
    \/ \E p \in Platforms : TaskRetry(p)
    \/ TierTimeout
    \/ BatchComplete
    \/ FinishCall

Spec == Init /\ [][Next]_vars

InitPool == OrchInit /\ PoolInit /\ ClientIdle /\ GenIdle /\ FunIdle /\ TimedIdle

NextPool ==
    \/ \E c \in Callers : PoolEnter(c)
    \/ \E c \in Callers : PoolRead(c)
    \/ \E c \in Callers : PoolAdvance(c)
    \/ \E c \in Callers : PoolWake(c)

SpecPool == InitPool /\ [][NextPool]_vars

NextClient ==
    \/ ClientStart
    \/ ClientSubmit
    \/ ClientPoll
    \/ ClientWake
    \/ ClientFetch

\* the attempt, once started, is run to its end by the event loop
ClientRuns == ClientSubmit \/ ClientPoll \/ ClientWake \/ ClientFetch

InitGen == OrchInit /\ PoolIdle /\ ClientIdle /\ GenInit /\ FunIdle /\ TimedIdle

NextGen ==
    \/ GenCall
    \/ GenTick
    \/ GenCallAgain

SpecGen == InitGen /\ [][NextGen]_vars

InitScore == OrchInit /\ PoolIdle /\ ClientIdle /\ GenIdle /\ ScoreInit /\ TimedIdle

NextScore == ScoreCall

SpecScore == InitScore /\ [][NextScore]_vars

InitSentiment ==
    OrchInit /\ PoolIdle /\ ClientIdle /\ GenIdle /\ SentimentInit /\ TimedIdle

NextSentiment == SentimentCall

SpecSentiment == InitSentiment /\ [][NextSentiment]_vars

NewBookCall ==
    \E ps \in BookPlatformSets, sid \in BookSessionIds :
        /\ ncalls < MaxBookCalls
        /\ StartCall(ps, 1, sid)

NextBook ==
    \/ NewBookCall
    \/ StartBatch
    \/ \E p \in Platforms : TaskBegin(p)
    \/ \E p \in Platforms : TaskResume(p)
    \/ \E p \in Platforms : TaskRetry(p)
    \/ TierTimeout
    \/ BatchComplete
    \/ FinishCall
    \/ Tick
    \/ \E sid \in BookSessionIds : GetSessionStats(sid)
    \/ GetGlobalStats
    \/ \E h \in CleanupHours : CleanupOldTasks(h)

SpecBook == Init /\ [][NextBook]_vars

NextTimed ==
    \/ \E t \in 1..2 : TimedStartBatch(t)
    \/ TimedSubmit
    \/ TimedPoll
    \/ TimedWake
    \/ TimedTimeout
    \/ TimedFetch

SpecTimed == Init /\ [][NextTimed]_vars

\* the event loop runs a timer that is due, and a request that was sent is
\* answered or times out
SpecTimedLive == SpecTimed /\ WF_vars(NextTimed)

SpecClient == Init /\ [][NextClient]_vars
SpecClientLive == Init /\ [][NextClient]_vars /\ WF_vars(ClientRuns)

-----------------------------------------------------------------------------
(* Properties of the orchestrator *)

Returned == callpc = "idle" /\ report # NoReport

\* C1: the report of every call holds exactly one platform result for each
\* requested platform and none for any other platform, and platforms_analyzed
\* is the number of requested platforms.
C1_OneResultPerPlatform ==
    Returned =>
        /\ DOMAIN report.all_platforms_data = call.platforms
        /\ \A p \in call.platforms : report.all_platforms_data[p] # NoResult
        /\ report.platforms_analyzed = Cardinality(call.platforms)

\* a report over every platform, after a tier timeout and a fallback
C1_Witness ==
    /\ Returned
    /\ call.platforms = Platforms
    /\ report.all_platforms_data["facebook"].origin = "fallback_empty"
    /\ report.all_platforms_data["youtube"].origin = "generator"
    /\ report.all_platforms_data["linkedin"].origin = "error"

\* C2: no failure below the orchestrator makes the call raise: the call is
\* never in the raised position, and as long as it has not returned some step
\* of it can be taken (it is never stuck before it returns its report).
C2_NeverRaises ==
    /\ callpc # "raised"
    /\ callpc \in {"tiers", "batch"} =>
           ENABLED (StartBatch \/ TierTimeout \/ BatchComplete \/ FinishCall
                    \/ \E p \in Platforms : TaskBegin(p) \/ TaskResume(p) \/ TaskRetry(p))

\* a report returned although a client failed and another exhausted its retries
C2_Witness ==
    /\ Returned
    /\ {"facebook", "instagram"} \subseteq call.platforms
    /\ report.all_platforms_data["facebook"].origin = "generator"
    /\ report.all_platforms_data["instagram"].origin = "error"

Resolved(p) == tasks[p].pc \in {"done", "cancelled"}

\* C3: no task of a later tier is started while a task of an earlier tier is
\* unresolved.
C3_TiersInOrder ==
    \A p, q \in Platforms :
        (/\ tasks[p].pc # "absent"
         /\ tasks[q].pc # "absent"
         /\ tasks[p].priority < tasks[q].priority
         /\ tasks[q].pc # "pending") => Resolved(p)

\* a MEDIUM task has run after the HIGH tier was resolved by a timeout
C3_Witness ==
    /\ tasks["youtube"].pc = "done"
    /\ tasks["facebook"].pc = "cancelled"
    /\ tasks["instagram"].pc = "done"

-----------------------------------------------------------------------------
(* Tier timeout *)

TimedOut(t) == \E q \in TierTasks(t) : tasks[q].pc = "cancelled"
CompletedLive(p) == tasks[p].pc = "done" /\ taskret[p].origin = "client"

C5_TimeoutStep ==
    \E p \in Platforms : tasks[p].pc \in {"polling", "backoff"} /\ tasks'[p].pc = "cancelled"

\* C5: the step of a tier timeout gives every task unresolved at that moment
\* a result with data_source "fallback_empty" and no records, ends the tier
\* (no task of it is left running), and leaves the tasks of the following
\* tiers to be run next; a requested youtube task (MEDIUM tier) always has
\* the generator's result in the report, whatever happened to the HIGH tier.
C5_TierTimeoutFallback ==
    /\ [](Returned /\ "youtube" \in call.platforms
            => report.all_platforms_data["youtube"].origin = "generator")
    /\ [][C5_TimeoutStep =>
            /\ \A p \in Platforms :
                   (tasks[p].priority = tier /\ tasks[p].pc \in {"polling", "backoff"}) =>
                       /\ results'[p].data_source = "fallback_empty"
                       /\ results'[p].results = 0
                       /\ results'[p].success
            /\ callpc = "batch" /\ callpc' = "tiers"
            /\ \A p \in Platforms :
                   tasks[p].priority = tier => tasks'[p].pc \in {"done", "cancelled"}
            /\ \A q \in Platforms :
                   tasks[q].priority > tier =>
                       /\ tasks'[q].pc = "pending"
                       /\ NextTier' = tasks[q].priority
        ]_vars

\* the HIGH tier timed out and the MEDIUM tier ran afterwards
C5_Witness ==
    /\ Returned
    /\ call.platforms = {"instagram", "youtube"}
    /\ report.all_platforms_data["instagram"].data_source = "fallback_empty"
    /\ report.all_platforms_data["youtube"].results > 0

-----------------------------------------------------------------------------
(* Retries *)

AllAttemptsFailed(p) ==
    /\ UsesRealScraping(p)
    /\ tasks[p].pc = "done"
    /\ taskret[p].origin \in {"generator", "error"}

C7_AttemptRaises(p) == tasks'[p].raised > tasks[p].raised
C7_AttemptReturnsFailure(p) ==
    /\ tasks[p].pc \in {"ready", "polling", "backoff"}
    /\ tasks'[p].pc = "done"
    /\ taskret'[p].origin = "generator"
C7_AttemptFails(p) ==
    UsesRealScraping(p) /\ (C7_AttemptRaises(p) \/ C7_AttemptReturnsFailure(p))

-----------------------------------------------------------------------------
(* Scenario: facebook and instagram requested, both clients fail at once *)

\* both tasks ended on their first attempt with a failure result of the
\* client, as after an error of the submission
C8_Scenario ==
    /\ call.platforms = {"facebook", "instagram"}
    /\ \A p \in {"facebook", "instagram"} :
           /\ tasks[p].pc = "done"
           /\ tasks[p].attempts = 1
           /\ tasks[p].raised = 0
           /\ taskret[p].origin = "generator"
    /\ "failure" \in ClientOutcomes({"submit_error"})

C8_ReturnStep == callpc = "tiers" /\ callpc' = "idle"

-----------------------------------------------------------------------------
(* Rotation of the API keys (SpecPool) *)

\* C9: with N >= 1 keys, the k-th call of _get_next_api_key takes the key at
\* index (k-1) mod N, so the (N+1)-th call takes the first key again, and
\* current_key_index stays within 0..N-1.
C9_RoundRobin ==
    LET N == Len(api_keys) IN
    N >= 1 =>
        /\ current_key_index \in 0..(N - 1)
        /\ \A k \in 1..Len(handed) :
               /\ handed[k].index = (k - 1) % N
               /\ handed[k].key = api_keys[((k - 1) % N) + 1]
        /\ Len(handed) >= N + 1 => handed[N + 1].key = api_keys[1]
        /\ \A c \in Callers :
               ppc[c] \in {"advance", "sleep"} =>
                   \E k \in 1..Len(handed) : plocal[c] = handed[k].key

\* the (N+1)-th call has wrapped round a list of two different keys or more
C9_Witness ==
    /\ Len(api_keys) >= 2
    /\ api_keys[1] # api_keys[2]
    /\ Len(handed) = Len(api_keys) + 1
    /\ handed[Len(handed)].index = 0
    /\ handed[Len(handed)].key = api_keys[1]

\* C10: under every interleaving of the coroutines that take keys from the
\* same scraper, a call reads and advances current_key_index without another
\* coroutine running in between, so the indices taken are c, c+1, c+2, ...
\* modulo N: none is skipped and none is taken twice within N consecutive
\* calls.
C10_NextSerialized ==
    LET N == Len(api_keys) IN
    /\ \A c \in Callers : ppc[c] \in {"read", "advance"} => running = c
    /\ \A c, d \in Callers :
           (c # d /\ ppc[c] \in {"read", "advance"}) => ppc[d] \notin {"read", "advance"}
    /\ (N >= 1 /\ running = 0) => current_key_index = Len(handed) % N
    /\ \A k \in 1..(Len(handed) - 1) :
           handed[k + 1].index = (handed[k].index + 1) % N
    /\ \A j, k \in 1..Len(handed) :
           (j < k /\ k - j < N) => handed[j].index # handed[k].index

\* two calls are in flight at once and have taken different indices
C10_Witness ==
    /\ Len(api_keys) >= 2
    /\ \A c \in {1, 2} : ppc[c] = "sleep"
    /\ Len(handed) >= 2
    /\ handed[Len(handed)].index # handed[Len(handed) - 1].index

\* C11: with no key loaded, _get_next_api_key returns None, it does not
\* raise (no index is read), and current_key_index keeps its value.
C11_EmptyPoolReturnsNone ==
    Len(api_keys) = 0 =>
        /\ current_key_index = 0
        /\ handed = <<>>
        /\ \A c \in Callers :
               /\ ppc[c] = "idle"
               /\ plocal[c] \in {"none", "None"}
               /\ pout[c] # "none" => plocal[c] = "None"

\* two calls have been made on an empty list of keys
C11_Witness ==
    /\ Len(api_keys) = 0
    /\ pcount >= 2
    /\ \A c \in Callers : plocal[c] = "None"
    /\ current_key_index = 0

-----------------------------------------------------------------------------
(* The job lifecycle client (SpecClient) *)

ClientRestarts == clast' = "get_api_key"
ClientPolls == cpc = "loop" /\ clast' \in {"poll", "poll_error"}

\* C12: the dataset request is sent only after a status poll of the run has
\* answered SUCCEEDED; an attempt that failed at the key, at the submission,
\* by a run ending FAILED, ABORTED or TIMED-OUT, or at the ceiling of the
\* poll loop has sent no dataset request.
C12_FetchOnlyAfterSucceeded ==
    /\ (cfetch = "sent" \/ cpc = "fetch" \/ clast = "fetch") => cstatus = "SUCCEEDED"
    /\ cerror \in {"no_key", "submit_error", "FAILED", "ABORTED", "TIMED-OUT",
                   "ceiling", "malformed", "poll_error"}
           => (cfetch = "none" /\ clast # "fetch")
    /\ cout = "success" => cfetch = "sent"

\* an attempt fetched the dataset after polls that did not answer SUCCEEDED at once
C12_Witness ==
    /\ cpc = "done"
    /\ cout = "success"
    /\ cfetch = "sent"
    /\ cstatus = "SUCCEEDED"
    /\ celapsed >= PollInterval

StatusRank(st) ==
    CASE st = "none" -> 0
      [] st = "SUBMITTED" -> 1
      [] st = "RUNNING" -> 2
      [] OTHER -> 3

\* C13: within an attempt the status seen by the client never moves back
\* (none, SUBMITTED, RUNNING, terminal); after a poll answered SUCCEEDED,
\* FAILED, ABORTED or TIMED-OUT the status is kept and no further poll is
\* made; the attempt succeeds only with SUCCEEDED and fails at once with the
\* other three.
C13_StatusMonotonic ==
    [][~ClientRestarts =>
          /\ StatusRank(cstatus') >= StatusRank(cstatus)
          /\ cstatus \in TerminalStatuses => (cstatus' = cstatus /\ ~ClientPolls)
          /\ cout' = "success" => cstatus' = "SUCCEEDED"
          /\ cstatus' \in {"FAILED", "ABORTED", "TIMED-OUT"} =>
                 /\ cpc' = "done"
                 /\ cout' \in {"failure", "raise"}
                 /\ cerror' = cstatus'
      ]_vars

\* a run was seen RUNNING for a while and then ABORTED
C13_Witness ==
    /\ cstatus = "ABORTED"
    /\ cpc = "done"
    /\ cout = "failure"
    /\ celapsed >= 2 * PollInterval
    /\ clast = "poll"

\* C14: a status request that raises does not end the attempt: the loop
\* sleeps the backoff of 5 s and goes back to its condition; before the
\* ceiling a poll can still answer SUCCEEDED, and then the attempt goes on
\* to the fetch and can succeed, whatever the number of poll errors before.
C14_PollErrorRetried ==
    /\ [](/\ (cpc = "sleep" /\ clast = "poll_error") =>
                 (csleep = 5 /\ cout = "none" /\ cerror = "none" /\ ENABLED ClientWake)
          /\ (cpc = "loop" /\ LoopContinues(celapsed)) =>
                 ENABLED (ClientPoll /\ cstatus' = "SUCCEEDED" /\ cpc' = "fetch")
          /\ cpc = "fetch" => ENABLED (ClientFetch /\ cout' = "success"))
    /\ [][(cpc = "loop" /\ clast' = "poll_error") =>
              /\ cpc' = "sleep"
              /\ cstatus' = cstatus
              /\ cout' = "none"
              /\ creports' = creports
         ]_vars
    /\ [][(cpc = "loop" /\ clast' = "poll" /\ cstatus' = "SUCCEEDED") =>
              (cpc' = "fetch" /\ cerrors' = cerrors /\ cerror' = "none")
         ]_vars

\* an attempt succeeded after MaxPollErrors poll errors or more
C14_Witness ==
    /\ cout = "success"
    /\ cerrors = MaxPollErrors
    /\ cerror = "none"

\* C15: the poll loop terminates.  A poll is made only while the elapsed time
\* is under the ceiling of 15 minutes; at the ceiling the loop makes no poll
\* and the attempt ends with the timeout failure; an attempt in the loop
\* always leaves it, and when it leaves it without a terminal status nor a
\* malformed answer, it is by the ceiling.
C15_PollLoopTerminates ==
    /\ [][ClientPolls => celapsed < 900]_vars
    /\ [][(cpc = "loop" /\ celapsed >= 900 /\ cpc' # cpc) =>
              /\ clast' = "raise"
              /\ cpc' = "done"
              /\ cerror' = "ceiling"
              /\ cout' \in {"failure", "raise"}
         ]_vars
    /\ [][(cpc \in {"loop", "sleep"} /\ cpc' = "done"
              /\ cstatus' \notin TerminalStatuses /\ cerror' # "malformed") =>
              (cerror' = "ceiling" /\ celapsed' >= 900)
         ]_vars
    /\ (cpc \in {"loop", "sleep"}) ~> (cpc \in {"fetch", "done"})

\* a run that was never seen in a terminal status ended at the ceiling
C15_Witness ==
    /\ cpc = "done"
    /\ cerror = "ceiling"
    /\ cstatus = "RUNNING"
    /\ celapsed >= 900
    /\ cout = "failure"

Reported(kind) == \E i \in 1..Len(creports) : creports[i] = kind

\* C16 (as claimed): an attempt whose submission succeeded has called
\* report_success by the time it ends, and so has an attempt whose dataset
\* fetch succeeded.
C16_SuccessReported ==
    /\ (cpc = "done" /\ cstatus # "none") => Reported("report_success")
    /\ (cpc = "done" /\ cout = "success") => Reported("report_success")

\* C16 (amended): the client calls report_success exactly when a status poll
\* of the run has answered SUCCEEDED, once in the attempt and before the
\* dataset fetch; a submission that succeeds does not by itself cause the
\* call, and a fetch that succeeds adds no other.
C16_SuccessReportedWhenRunSucceeded ==
    /\ Reported("report_success") <=> cstatus = "SUCCEEDED"
    /\ Reported("report_success") =>
           /\ creports[1] = "report_success"
           /\ \A i \in 2..Len(creports) : creports[i] # "report_success"
    /\ cpc = "fetch" => creports = <<"report_success">>
    /\ cout = "success" => creports = <<"report_success">>

\* an attempt succeeded, with one report_success, after a poll error
C16_Witness ==
    /\ cpc = "done"
    /\ cout = "success"
    /\ cfetch = "sent"
    /\ cerrors >= 1
    /\ creports = <<"report_success">>

\* C17: an attempt that ends in failure (no key, submission error, run ended
\* FAILED, ABORTED or TIMED-OUT, ceiling of the poll loop, fetch error) has
\* called report_failure at least once, and as its last report, when the
\* failure reaches the caller.
C17_FailureReported ==
    (cpc = "done" /\ cout \in {"failure", "raise"}) =>
        /\ cerror \in {"no_key", "submit_error", "FAILED", "ABORTED", "TIMED-OUT",
                       "ceiling", "fetch_error", "fetch_no_key", "malformed"}
        /\ Reported("report_failure")
        /\ creports[Len(creports)] = "report_failure"

\* the fetch failed after the run had succeeded
C17_Witness ==
    /\ cpc = "done"
    /\ cout = "failure"
    /\ cerror = "fetch_error"
    /\ creports = <<"report_success", "report_failure">>

-----------------------------------------------------------------------------
(* The generators of synthetic posts *)

Called == gpc # "init"
Simulated == Called /\ gin.gen = "simulate"
SupportedPlatforms == {"facebook", "instagram", "youtube", "twitter"}
GeneratorCap(p) ==
    CASE p = "facebook" -> FacebookSimCap
      [] p = "youtube" -> YoutubeSimCap
      [] p = "twitter" -> TwitterSimCap
      [] OTHER -> InstagramSimCap

\* C18 as stated: for every supported platform and every max_results >= 0
\* the orchestrator's fallback generator succeeds and returns exactly
\* max_results records.
C18_ExactlyMaxResults ==
    (Simulated /\ gin.platform \in SupportedPlatforms)
        => /\ gout1.result.success
           /\ Len(gout1.records) = gin.max_results

\* C18 as the code has it: for every supported platform and every
\* max_results >= 0 the orchestrator's fallback generator succeeds and
\* returns min(max_results, cap) records, the cap being 8 for facebook and
\* youtube, 10 for instagram and 12 for twitter.
C18_MaxResultsUpToCap ==
    (Simulated /\ gin.platform \in SupportedPlatforms)
        => /\ gout1.result.success
           /\ gout1.result.results = Len(gout1.records)
           /\ Len(gout1.records) = Min(gin.max_results, GeneratorCap(gin.platform))

C18_Witness ==
    /\ Simulated
    /\ gin.platform = "twitter"
    /\ gin.max_results > TwitterSimCap
    /\ gout1.result.success
    /\ Len(gout1.records) = TwitterSimCap

\* the count called name of a record, 0 when the record has no such count
Metric(rec, name) == IF name \in DOMAIN rec THEN rec[name] ELSE 0
EngagementMetrics == {"like_count", "comment_count", "share_count", "view_count"}

Unstamped(post) ==
    [name \in DOMAIN post \ {"created_at", "extracted_at", "local_thumbnail_path"}
        |-> post[name]]

-----------------------------------------------------------------------------
(* The virality score *)

ScoreCalled == fpc = "done" /\ fout.fn = "calculate_virality_score"

\* C21: for every platform, every follower count >= 0 and all like, comment,
\* share and view counts >= 0, calculate_virality_score returns a value in
\* [0, 100] (here in hundredths: in 0..10000).
C21_ScoreInRange ==
    ScoreCalled => fout.score \in 0..10000

\* the clamp acts: the score before it is above 100 (2405.6 and more for 1000
\* likes of an author with one follower)
C21_Witness ==
    /\ ScoreCalled
    /\ fin.engagement_metrics.likes = MaxMetric
    /\ fin.author_followers = 1
    /\ NormalizedScoreUnclamped(ViralityScore(fin.engagement_metrics, fin.platform,
                                              fin.author_followers)) > 10000
    /\ fout.score = 10000

-----------------------------------------------------------------------------
(* The sentiment summary *)

SentimentCalled == fpc = "done" /\ fout.fn = "analyze_sentiment_trends"
GivenPlatforms == DOMAIN fin.platforms_data
GivenPosts(q) == fin.platforms_data[q].results

\* C22 as stated: the sentiment summary counts the records of every
\* platform result it is given: total_posts_analyzed is the number of
\* records over all platform results, and every platform with at least one
\* record has an entry in the per-platform breakdown.
C22_CountsEveryPlatform ==
    SentimentCalled =>
        /\ fout.total_posts_analyzed =
               SumOver([q \in GivenPlatforms |-> Len(GivenPosts(q))], GivenPlatforms)
        /\ \A q \in GivenPlatforms :
               Len(GivenPosts(q)) > 0 => q \in DOMAIN fout.platform_breakdown

\* C23 as stated: for every platform of the breakdown, dominant_sentiment is
\* a sentiment whose count is greater than or equal to the count of each of
\* the other two sentiments.
C23_DominantByMajority ==
    SentimentCalled =>
        \A q \in DOMAIN fout.platform_breakdown :
            \A other \in {"positive", "negative", "neutral"} :
                CountPosts(GivenPosts(q), fout.platform_breakdown[q].dominant_sentiment)
                    >= CountPosts(GivenPosts(q), other)

\* C29 as stated: confidence_score equals |positive - negative| / total x 100
\* over the counted records, lies in [0, 100], is 0 when no record was
\* counted, and the positive, negative and neutral counts sum to
\* total_posts_analyzed.  (The score is in tenths: 1000 for 100.)
C29_ConfidenceExact ==
    SentimentCalled =>
        LET p == fout.counted["positive"]
            n == fout.counted["negative"]
            total == fout.total_posts_analyzed
        IN  /\ fout.confidence_score * total = 1000 * (IF p > n THEN p - n ELSE n - p)
            /\ fout.confidence_score \in 0..1000
            /\ total = 0 => fout.confidence_score = 0
            /\ p + n + fout.counted["neutral"] = total

\* C29 as the code has it: confidence_score is |positive - negative| / total
\* x 100 rounded to one decimal (so within 0.05 of it), lies in [0, 100], is
\* 0 when no record was counted, and the positive, negative and neutral
\* counts sum to total_posts_analyzed.
C29_ConfidenceRounded ==
    SentimentCalled =>
        LET p == fout.counted["positive"]
            n == fout.counted["negative"]
            total == fout.total_posts_analyzed
            exact == 1000 * (IF p > n THEN p - n ELSE n - p)
            err == (fout.confidence_score * total) - exact
        IN  /\ 2 * err <= total
            /\ 2 * err >= -total
            /\ fout.confidence_score \in 0..1000
            /\ total = 0 => fout.confidence_score = 0
            /\ p + n + fout.counted["neutral"] = total

\* one positive post in three: 33.3 for 33.333...
C29_Witness ==
    /\ SentimentCalled
    /\ fout.total_posts_analyzed = 3
    /\ fout.counted["positive"] = 1
    /\ fout.counted["negative"] = 0
    /\ fout.confidence_score = 333

-----------------------------------------------------------------------------
(* The bookkeeping maps and the counters *)

\* C24 as stated: in every reachable state, over any sequence of
\* orchestration calls (including calls that reuse a session_id), no key
\* session_id+platform is present in more than one of the active, completed
\* and failed maps.
C24_MapsDisjoint ==
    /\ active_tasks \cap completed_tasks = {}
    /\ active_tasks \cap failed_tasks = {}
    /\ completed_tasks \cap failed_tasks = {}

\* C25: entries leave the completed and failed maps only through an explicit
\* cleanup_old_tasks call: a step that removes a key from the completed or
\* the failed map is a step of cleanup_old_tasks.
C25_OnlyCleanupRemoves ==
    [][ (\/ ~(completed_tasks \subseteq completed_tasks')
         \/ ~(failed_tasks \subseteq failed_tasks'))
            => \E h \in CleanupHours : CleanupOldTasks(h) ]_vars

\* a task was stored in the completed map (the generator was used) and a
\* cleanup has emptied both maps since
C25_Witness ==
    /\ stats.fallback_used > 0
    /\ completed_tasks = {}
    /\ failed_tasks = {}
    /\ ncalls = MaxBookCalls

Counters == {"total_tasks", "successful_tasks", "failed_tasks", "fallback_used"}

\* C26: the counters total_tasks, successful_tasks, failed_tasks and
\* fallback_used never decrease: every step of every operation leaves each
\* of them greater than or equal to its previous value.
C26_CountersMonotonic ==
    [][ \A c \in Counters : stats'[c] >= stats[c] ]_vars

\* two calls were counted, of which a task failed for good and another got
\* generator data, and a cleanup has run since
C26_Witness ==
    /\ ncalls = 2
    /\ stats.total_tasks >= 3
    /\ stats.failed_tasks >= 1
    /\ stats.fallback_used >= 1
    /\ completed_tasks = {}

\* C27: a task's retry_count changes only by the orchestrator incrementing
\* it by one on a retry, it never exceeds the task's max_retries, and a
\* retry of one task leaves the retry_count of every sibling task of the
\* tier unchanged.
C27_RetryCountLocal ==
    [][ \A p \in Platforms :
          (tasks[p].pc # "absent" /\ tasks'[p].pc \notin {"absent", "pending"}) =>
              /\ tasks'[p].retry_count <= tasks'[p].max_retries
              /\ tasks'[p].max_retries = tasks[p].max_retries
              /\ tasks'[p].retry_count # tasks[p].retry_count =>
                     /\ tasks'[p].retry_count = tasks[p].retry_count + 1
                     /\ tasks'[p].pc = "backoff"
                     /\ \A q \in Platforms \ {p} :
                            tasks'[q].retry_count = tasks[q].retry_count ]_vars

\* facebook has used up its retries while instagram, in the same tier, ran
\* without one
C27_Witness ==
    /\ tasks["facebook"].retry_count = tasks["facebook"].max_retries
    /\ tasks["facebook"].max_retries = DefaultMaxRetries
    /\ tasks["instagram"].pc \in {"polling", "done"}
    /\ tasks["instagram"].retry_count = 0

\* C30: cleanup_old_tasks(h) removes from the completed and failed maps
\* exactly the entries whose task was created more than h hours before the
\* call, keeps every entry created later, and leaves the active map and the
\* four counters unchanged.
C30_CleanupExact ==
    [][ \A h \in CleanupHours :
          CleanupOldTasks(h) =>
              /\ completed_tasks' = {k \in completed_tasks : ~(now - completed_at[k] > h)}
              /\ failed_tasks' = {k \in failed_tasks : ~(now - failed_at[k] > h)}
              /\ \A k \in completed_tasks' : completed_at'[k] = completed_at[k]
              /\ \A k \in failed_tasks' : failed_at'[k] = failed_at[k]
              /\ active_tasks' = active_tasks
              /\ stats' = stats ]_vars

\* a cleanup call finds an entry to remove and one exactly h hours old, which
\* it keeps
C30_Witness ==
    \E h \in CleanupHours :
        /\ \E k \in completed_tasks : now - completed_at[k] > h
        /\ \E k \in completed_tasks \cup failed_tasks :
              IF k \in failed_tasks THEN now - failed_at[k] = h
              ELSE now - completed_at[k] = h
        /\ ENABLED CleanupOldTasks(h)

-----------------------------------------------------------------------------
(* The wall-clock time of a tier *)

\* C28 as stated: for every tier, the time between the start of the tier's
\* batch and the moment the batch resolves never exceeds the configured tier
\* timeout (600 s for HIGH, 300 s for MEDIUM and LOW) plus epsilon (here one
\* second), whatever the remote job API does.
C28_TierTimeBounded ==
    LET epsilon == 1
    IN  wresolved # "none" => wclock <= TierTimeoutOf(wtier) + epsilon

-----------------------------------------------------------------------------
\* C31: in every report successful_platforms and failed_platforms are
\* disjoint, their union is the set of requested platforms, and a platform
\* is in successful_platforms exactly when its platform result has
\* success = true.
C31_PlatformsPartitioned ==
    Returned =>
        /\ report.successful_platforms \cap report.failed_platforms = {}
        /\ report.successful_platforms \cup report.failed_platforms
               = call.platforms
        /\ \A p \in call.platforms :
               p \in report.successful_platforms
                   <=> report.all_platforms_data[p].success

\* a report that lists a successful and a failed platform
C31_Witness ==
    /\ Returned
    /\ report.successful_platforms # {}
    /\ report.failed_platforms # {}

-----------------------------------------------------------------------------
\* the posts a platform result contains: the records of a generator result
\* are under its key results, those of a live result under its key posts
PostsContained(r) == r.results + r.posts

RECURSIVE SumPostsContained(_, _)
SumPostsContained(data, S) ==
    IF S = {} THEN 0
    ELSE LET p == CHOOSE q \in S : TRUE
         IN PostsContained(data[p]) + SumPostsContained(data, S \ {p})

\* C32: the report's total_posts is the number of posts contained in the
\* platform results listed in successful_platforms, live results of the
\* job lifecycle client included.
C32_TotalPostsCountsLive ==
    Returned =>
        report.total_posts
            = SumPostsContained(report.all_platforms_data,
                                report.successful_platforms)

-----------------------------------------------------------------------------
\* the keys of the session of the call
SessionKeys(sid) == {Key(sid, p) : p \in Platforms}

\* C33: after execute_comprehensive_scraping returns, the active map holds
\* no entry of the call's session, whichever way its tasks ended (success,
\* fallback, used-up retries, cancellation by the tier timeout).
C33_NoActiveAfterReturn ==
    Returned => active_tasks \cap SessionKeys(call.session_id) = {}

\* a call has returned one of whose tiers timed out, cancelling a task
C33_Witness ==
    /\ Returned
    /\ \E p \in call.platforms :
           report.all_platforms_data[p].origin = "fallback_empty"
    /\ active_tasks = {}

-----------------------------------------------------------------------------
\* C34: after execute_comprehensive_scraping returns, the key of every
\* requested platform is in the completed map or in the failed map, the
\* platforms of a tier that timed out included, and get_session_stats
\* reports as total_tasks the number of requested platforms.
C34_EveryKeyStored ==
    Returned /\ ncalls = 1 =>
        /\ \A p \in call.platforms :
               Key(call.session_id, p) \in completed_tasks \cup failed_tasks
        /\ SessionStats(call.session_id).total_tasks
               = Cardinality(call.platforms)

-----------------------------------------------------------------------------
\* C35: after every completed call total_tasks = successful_tasks +
\* failed_tasks, and the call has raised total_tasks by exactly the number
\* of platform results in its report.
C35_TotalIsSumAndGrowsByResults ==
    [][/\ stats'.total_tasks = stats'.successful_tasks + stats'.failed_tasks
       /\ ncalls' # ncalls =>
              stats'.total_tasks
                  = stats.total_tasks
                      + Cardinality(DOMAIN report'.all_platforms_data)]_vars

\* a second call has completed, and a platform has failed
C35_Witness ==
    /\ Returned
    /\ ncalls = 2
    /\ stats.failed_tasks > 0
    /\ stats.total_tasks > Cardinality(DOMAIN report.all_platforms_data)

-----------------------------------------------------------------------------
\* C36: get_session_stats(s) counts only the tasks that ran under session
\* id s: an entry stored under another session id adds to none of its three
\* counts, also when one session id is the start of the other.
C36_CountsOwnSessionOnly ==
    \A sid \in BookSessionIds :
        /\ SessionStats(sid).active_tasks
               = Cardinality(active_tasks \cap SessionKeys(sid))
        /\ SessionStats(sid).completed_tasks
               = Cardinality(completed_tasks \cap SessionKeys(sid))
        /\ SessionStats(sid).failed_tasks
               = Cardinality(failed_tasks \cap SessionKeys(sid))

-----------------------------------------------------------------------------
\* C37: each attempt of scrape_*_posts sends exactly one health signal to
\* the credential pool: one report_success when it returns a success,
\* otherwise one report_failure; never both kinds and never one kind twice.
C37_OneSignalPerAttempt ==
    cpc = "done" =>
        /\ Len(creports) = 1
        /\ cout = "success" <=> creports = <<"report_success">>
        /\ cout # "success" <=> creports = <<"report_failure">>

-----------------------------------------------------------------------------
\* C38: a task of the HIGH tier whose remote run reaches no terminal status
\* is resolved by the timeout of the tier: the poll loop of the client never
\* finds its own ceiling passed before that, a suspended task leaves its
\* sleep for the next poll or by the timeout only, and the batch does end.
C38_ResolvedByTierTimeout ==
    /\ [](wpc = "loop" => LoopContinues(wclock - wstart))
    /\ [][wpc = "sleep" /\ wpc' = "resolved" => wresolved' = "timeout"]_vars
    /\ <>(wpc = "resolved")

\* a batch of the HIGH tier was resolved by the timeout while its task slept
C38_Witness ==
    /\ wpc = "resolved"
    /\ wtier = 1
    /\ wresolved = "timeout"
    /\ wclock - wstart >= HighTierTimeout - SubmitRequestTimeout
    /\ wclock - wstart < MaxWaitSeconds

-----------------------------------------------------------------------------
\* C39: an attempt started when no credential is available ends with a
\* failure result returned to its caller and never raises out of
\* scrape_*_posts, in the client of services/ and in that of scrapers/.
C39_NoKeyReturnsFailure ==
    \A c \in Callers :
        (ppc[c] = "idle" /\ plocal[c] = "None") => pout[c] = "failure"

-----------------------------------------------------------------------------
\* C40: every post of _generate_simulated_instagram_posts and of
\* _generate_simulated_facebook_posts has like, comment, share and view
\* counts that are not negative and a total_engagement that is not
\* negative, for every index below max_posts.
C40_MetricsNonNegative ==
    (Called /\ gin.gen = "viral") =>
        \A k \in 1..Len(gout1.records) :
            /\ \A name \in EngagementMetrics : gout1.records[k][name] >= 0
            /\ gout1.records[k].total_engagement >= 0

=============================================================================
